---- MODULE Spec2Model ----
(***************************************************************************)
(* A model of kernel/memremap.c: the memremap() negotiation, the devres    *)
(* wrappers around it, and the ZONE_DEVICE section registry (pgmap_radix)  *)
(* driven by devm_memremap_pages() and its release hook.                   *)
(*                                                                         *)
(* Three specifications share the actions below.                           *)
(*   Spec      callers and RCU readers interleave at the granularity of    *)
(*             the code's own synchronisation (pgmap_lock, one radix-tree  *)
(*             update per step).                                           *)
(*   SpecSeq   the same steps, but a call starts only when no other call   *)
(*             or lookup is in progress (the API used from one thread).    *)
(*   SpecRemap one caller using memremap(), memunmap(), devm_memremap(),   *)
(*             devm_memunmap(), devm_memremap_pages() and teardown.        *)
(***************************************************************************)
EXTENDS Integers, Sequences, FiniteSets, TLC

(* ------------------------------ bounds -------------------------------- *)
\* width of resource_size_t in the model
AddrBits == 3
\* highest physical address a caller passes as start or (inclusive) end
MaxAddr == 2
\* number of struct page_map allocations over a run
MaxRecs == 2
\* devres entries one device holds at a time
MaxHooks == 1
\* number of ioremap mappings established over a run
MaxMaps == 1
\* largest flags word a caller passes (bits above MEMREMAP_WT are unknown)
MaxFlags == 4

(* ----------------------- constants of the code ------------------------ *)
\* the architecture's section shift, scaled to the model's addresses: a
\* section is two addresses
PA_SECTION_SHIFT == 1
SECTION_SIZE == 2 ^ PA_SECTION_SHIFT
MEMREMAP_WB == 1
MEMREMAP_WT == 2
ENXIO == 6
ENOMEM == 12
EBUSY == 16
EEXIST == 17

REGION_INTERSECTS == "REGION_INTERSECTS"
REGION_DISJOINT == "REGION_DISJOINT"
REGION_MIXED == "REGION_MIXED"
Regions == {REGION_INTERSECTS, REGION_DISJOINT, REGION_MIXED}

AddrMod == 2 ^ AddrBits
Addrs == 0 .. MaxAddr
Sections == 0 .. ((AddrMod \div SECTION_SIZE) - 1)
Recs == 1 .. MaxRecs
NULL == 0
Devs == {"devA", "devB"}
Readers == {"cpu0"}
NoDev == "nodev"

\* the resources callers pass: start <= end, both within MaxAddr
Resources == {r \in [start : Addrs, end : Addrs] : r.start <= r.end}
NoRes == [start |-> 0, end |-> 0]

(* --------------------------- pointer values --------------------------- *)
\* __va(x): an address in the direct map
VA(x) == <<"va", x>>
\* ERR_PTR(-e)
ERR_PTR(e) == <<"err", e>>
\* an address in the vmalloc area, as ioremap returns it
IO(m) == <<"io", m>>
NoRet == <<"none", 0>>
NullPtr == <<"null", 0>>

(* ------------------------- address arithmetic ------------------------- *)
\* key >> PA_SECTION_SHIFT
SectionOf(phys) == phys \div SECTION_SIZE
\* res->start & ~(SECTION_SIZE - 1)
AlignDown(x) == x - (x % SECTION_SIZE)
\* ALIGN(x, SECTION_SIZE) on resource_size_t
AlignUp(x) == (((x + SECTION_SIZE - 1) \div SECTION_SIZE) * SECTION_SIZE) % AddrMod
\* resource_size(res) = end - start + 1
resource_size(r) == (r.end - r.start + 1) % AddrMod
\* the Sections that contain at least one address of the inclusive range
CoveredSections(r) == {SectionOf(a) : a \in r.start .. r.end}

VARIABLES
    pgmap_lock,     \* holder of the mutex pgmap_lock, or NoDev
    pgmap_radix,    \* the radix tree: Section -> page_map (NULL when absent)
    page_map,       \* every struct page_map allocated so far
    nrecs,          \* number of page_map allocations so far
    devres,         \* per device: its devres list (most recent last)
    mem_added,      \* per page_map: the range given to arch_add_memory
    mem_removed,    \* per page_map: the range given to arch_remove_memory
    pc,             \* per device: where its calling thread stands
    res,            \* per device: the resource of the call in progress
    is_ram,         \* per device: what region_intersects() said of it
    cur,            \* per device: local page_map of the call in progress
    key,            \* per device: the loop variable of the Section walk
    error,          \* per device: local error of devm_memremap_pages
    cont,           \* per device: who called pgmap_radix_release
    ret,            \* per device: value the finished call returned
    pre,            \* pgmap_radix when the last call of a single thread began
    rd_in,          \* per reader: inside rcu_read_lock()
    rd_rec,         \* per reader: the page_map find_dev_pagemap() returned
    vmaps,          \* per ioremap mapping: its state and the iounmap calls on it
    nmaps,          \* number of ioremap mappings established so far
    last            \* the last call of memremap() or of one of its wrappers:
                    \* its arguments, the value returned, the calls it made

vars == <<pgmap_lock, pgmap_radix, page_map, nrecs, devres, mem_added,
          mem_removed, pc, res, is_ram, cur, key, error, cont, ret, pre, rd_in,
          rd_rec, vmaps, nmaps, last>>

regvars == <<pgmap_lock, pgmap_radix, page_map, nrecs, mem_added, mem_removed>>
locvars == <<res, is_ram, cur, key, error, cont, ret>>
rdvars == <<rd_in, rd_rec>>
mapvars == <<vmaps, nmaps>>
hist == <<pre, last>>

EmptyRadix == [s \in Sections |-> NULL]
NoMap == [st |-> "unalloc", dev |-> NoDev, start |-> 0, end |-> 0]
FreedMap == [st |-> "freed", dev |-> NoDev, start |-> 0, end |-> 0]
NoRange == <<>>
NoVmap == [st |-> "none", unmaps |-> 0, devm |-> FALSE]
NoCall == [op |-> "none", offset |-> 0, region |-> REGION_DISJOINT, flags |-> 0,
           highmem |-> FALSE, addr |-> NoRet, calls |-> <<>>]

Init ==
    /\ pgmap_lock = NoDev
    /\ pgmap_radix = EmptyRadix
    /\ page_map = [p \in Recs |-> NoMap]
    /\ nrecs = 0
    /\ devres = [d \in Devs |-> <<>>]
    /\ mem_added = [p \in Recs |-> NoRange]
    /\ mem_removed = [p \in Recs |-> NoRange]
    /\ pc = [d \in Devs |-> "idle"]
    /\ res = [d \in Devs |-> NoRes]
    /\ is_ram = [d \in Devs |-> REGION_DISJOINT]
    /\ cur = [d \in Devs |-> NULL]
    /\ key = [d \in Devs |-> 0]
    /\ error = [d \in Devs |-> 0]
    /\ cont = [d \in Devs |-> "none"]
    /\ ret = [d \in Devs |-> NoRet]
    /\ pre = EmptyRadix
    /\ rd_in = [r \in Readers |-> FALSE]
    /\ rd_rec = [r \in Readers |-> NULL]
    /\ vmaps = [m \in 1 .. MaxMaps |-> NoVmap]
    /\ nmaps = 0
    /\ last = NoCall

(* ----------------------------- the registry --------------------------- *)
\* find_dev_pagemap(): radix_tree_lookup(&pgmap_radix, phys >> PA_SECTION_SHIFT)
find_dev_pagemap(phys) == pgmap_radix[SectionOf(phys)]

\* radix_tree_insert(): -EEXIST when the slot is taken, else the new tree
radix_tree_insert(tree, index, item) ==
    IF tree[index] # NULL
    THEN [err |-> EEXIST, tree |-> tree]
    ELSE [err |-> 0, tree |-> [tree EXCEPT ![index] = item]]

\* a variant for C12: deleting an absent key leaves an entry behind
radix_tree_delete_stale(tree, index) ==
    [tree EXCEPT ![index] = IF tree[index] = NULL THEN 1 ELSE NULL]

\* radix_tree_delete(): deleting an absent index changes nothing
radix_tree_delete(tree, index) == [tree EXCEPT ![index] = NULL]

\* the aligned range devm_memremap_pages() and its release hook compute
AlignedRange(r) == <<AlignDown(r.start), AlignUp(resource_size(r))>>

\* a variant for C18: devm_memremap_pages() without the return for
\* REGION_INTERSECTS, so that RAM is claimed like device memory
devm_memremap_pages_claims_ram(d, r, region, alloc) ==
    /\ pc[d] = "idle"
    /\ res' = [res EXCEPT ![d] = r]
    /\ is_ram' = [is_ram EXCEPT ![d] = region]
    /\ IF region = REGION_MIXED
       THEN /\ ret' = [ret EXCEPT ![d] = ERR_PTR(ENXIO)]
            /\ pc' = [pc EXCEPT ![d] = "done"]
            /\ UNCHANGED <<page_map, nrecs, cur, pgmap_lock, key>>
       ELSE IF ~alloc
       THEN /\ ret' = [ret EXCEPT ![d] = ERR_PTR(ENOMEM)]
            /\ pc' = [pc EXCEPT ![d] = "done"]
            /\ UNCHANGED <<page_map, nrecs, cur, pgmap_lock, key>>
       ELSE /\ nrecs < MaxRecs
            /\ Len(devres[d]) < MaxHooks
            /\ pgmap_lock = NoDev
            /\ nrecs' = nrecs + 1
            /\ page_map' = [page_map EXCEPT ![nrecs + 1] =
                  [st |-> "alloc", dev |-> d, start |-> r.start, end |-> r.end]]
            /\ cur' = [cur EXCEPT ![d] = nrecs + 1]
            /\ pgmap_lock' = d
            /\ key' = [key EXCEPT ![d] = r.start]
            /\ ret' = [ret EXCEPT ![d] = NoRet]
            /\ pc' = [pc EXCEPT ![d] = "walk"]
    /\ UNCHANGED <<pgmap_radix, devres, mem_added, mem_removed, error, cont>>
    /\ UNCHANGED <<rdvars, mapvars>>

(* ------------------- devm_memremap_pages(dev, res) -------------------- *)
\* entry, for the resource r, the classification region_intersects() gives
\* and the outcome of devres_alloc_node(): return early for mixed ranges and
\* for RAM; otherwise allocate and fill the page_map, mutex_lock(&pgmap_lock),
\* error = 0, key = res->start
devm_memremap_pages(d, r, region, alloc) ==
    /\ pc[d] = "idle"
    /\ res' = [res EXCEPT ![d] = r]
    /\ is_ram' = [is_ram EXCEPT ![d] = region]
    /\ IF region = REGION_MIXED
       THEN /\ ret' = [ret EXCEPT ![d] = ERR_PTR(ENXIO)]
            /\ pc' = [pc EXCEPT ![d] = "done"]
            /\ UNCHANGED <<page_map, nrecs, cur, pgmap_lock, key>>
       ELSE IF region = REGION_INTERSECTS
       THEN /\ ret' = [ret EXCEPT ![d] = VA(r.start)]
            /\ pc' = [pc EXCEPT ![d] = "done"]
            /\ UNCHANGED <<page_map, nrecs, cur, pgmap_lock, key>>
       ELSE IF ~alloc
       THEN /\ ret' = [ret EXCEPT ![d] = ERR_PTR(ENOMEM)]
            /\ pc' = [pc EXCEPT ![d] = "done"]
            /\ UNCHANGED <<page_map, nrecs, cur, pgmap_lock, key>>
       ELSE /\ nrecs < MaxRecs
            /\ Len(devres[d]) < MaxHooks
            /\ pgmap_lock = NoDev
            /\ nrecs' = nrecs + 1
            /\ page_map' = [page_map EXCEPT ![nrecs + 1] =
                  [st |-> "alloc", dev |-> d, start |-> r.start, end |-> r.end]]
            /\ cur' = [cur EXCEPT ![d] = nrecs + 1]
            /\ pgmap_lock' = d
            /\ key' = [key EXCEPT ![d] = r.start]
            /\ ret' = [ret EXCEPT ![d] = NoRet]
            /\ pc' = [pc EXCEPT ![d] = "walk"]
    /\ UNCHANGED <<pgmap_radix, devres, mem_added, mem_removed, error, cont>>
    /\ UNCHANGED <<rdvars, mapvars>>

\* one iteration of the for loop: collision check, then radix_tree_insert;
\* when the iteration ends the loop (break, or key > res->end afterwards)
\* also mutex_unlock and, on error, goto err_radix
pages_insert(d) ==
    /\ pc[d] = "walk"
    /\ LET dup == find_dev_pagemap(key[d])
           ins == radix_tree_insert(pgmap_radix, SectionOf(key[d]), cur[d])
           next == (key[d] + SECTION_SIZE) % AddrMod
       IN  \E nomem \in BOOLEAN :
           LET err == IF dup # NULL THEN EBUSY
                      ELSE IF nomem THEN ENOMEM ELSE ins.err
           IN  /\ pgmap_radix' = IF dup = NULL /\ ~nomem THEN ins.tree ELSE pgmap_radix
               /\ error' = [error EXCEPT ![d] = err]
               /\ IF err # 0
                  THEN /\ pgmap_lock' = NoDev
                       /\ key' = [key EXCEPT ![d] = 0]
                       /\ cont' = [cont EXCEPT ![d] = "err"]
                       /\ pc' = [pc EXCEPT ![d] = "rr_lock"]
                  ELSE IF next <= res[d].end
                  THEN /\ key' = [key EXCEPT ![d] = next]
                       /\ UNCHANGED <<pgmap_lock, cont, pc>>
                  ELSE /\ pgmap_lock' = NoDev
                       /\ key' = [key EXCEPT ![d] = 0]
                       /\ pc' = [pc EXCEPT ![d] = "add_memory"]
                       /\ UNCHANGED cont
    /\ UNCHANGED <<page_map, nrecs, devres, mem_added, mem_removed,
                   res, is_ram, cur, ret>>
    /\ UNCHANGED <<rdvars, mapvars>>

\* a variant for C7: a failure of arch_add_memory() skips
\* pgmap_radix_release() and goes straight to devres_free()
pages_add_memory_no_rollback(d) ==
    /\ pc[d] = "add_memory"
    /\ mem_added' = [mem_added EXCEPT ![cur[d]] = AlignedRange(res[d])]
    /\ \E err \in {0, EEXIST} :
        IF err # 0
        THEN /\ error' = [error EXCEPT ![d] = err]
             /\ pc' = [pc EXCEPT ![d] = "err_free"]
             /\ cont' = [cont EXCEPT ![d] = "err"]
             /\ UNCHANGED <<devres, ret>>
        ELSE /\ devres' = [devres EXCEPT ![d] = Append(@, <<"pages", cur[d]>>)]
             /\ ret' = [ret EXCEPT ![d] = VA(res[d].start)]
             /\ pc' = [pc EXCEPT ![d] = "done"]
             /\ UNCHANGED <<error, cont>>
    /\ UNCHANGED <<pgmap_lock, pgmap_radix, page_map, nrecs, mem_removed,
                   res, is_ram, cur, key>>
    /\ UNCHANGED <<rdvars, mapvars>>

\* arch_add_memory() on the aligned range, with the error it returns; on
\* success devres_add() and return __va(res->start), on failure
\* goto err_add_memory
pages_add_memory(d) ==
    /\ pc[d] = "add_memory"
    /\ mem_added' = [mem_added EXCEPT ![cur[d]] = AlignedRange(res[d])]
    /\ \E err \in {0, EEXIST} :
        IF err # 0
        THEN /\ error' = [error EXCEPT ![d] = err]
             /\ pc' = [pc EXCEPT ![d] = "rr_lock"]
             /\ cont' = [cont EXCEPT ![d] = "err"]
             /\ UNCHANGED <<devres, ret>>
        ELSE /\ devres' = [devres EXCEPT ![d] = Append(@, <<"pages", cur[d]>>)]
             /\ ret' = [ret EXCEPT ![d] = VA(res[d].start)]
             /\ pc' = [pc EXCEPT ![d] = "done"]
             /\ UNCHANGED <<error, cont>>
    /\ UNCHANGED <<pgmap_lock, pgmap_radix, page_map, nrecs, mem_removed,
                   res, is_ram, cur, key>>
    /\ UNCHANGED <<rdvars, mapvars>>

\* err_radix, after pgmap_radix_release(res): devres_free(page_map);
\* return ERR_PTR(error)
pages_err_free(d) ==
    /\ pc[d] = "err_free"
    /\ page_map' = [page_map EXCEPT ![cur[d]] = FreedMap]
    /\ ret' = [ret EXCEPT ![d] = ERR_PTR(error[d])]
    /\ cont' = [cont EXCEPT ![d] = "none"]
    /\ pc' = [pc EXCEPT ![d] = "done"]
    /\ UNCHANGED <<pgmap_lock, pgmap_radix, nrecs, devres, mem_added, mem_removed,
                   res, is_ram, cur, key, error>>
    /\ UNCHANGED <<rdvars, mapvars>>

\* a variant for C15: the walk of pgmap_radix_release() deletes nothing
pgmap_radix_release_keep(d) ==
    /\ pc[d] \in {"rr_lock", "rr_walk"}
    /\ pc[d] = "rr_lock" => pgmap_lock = NoDev
    /\ LET k == IF pc[d] = "rr_lock" THEN res[d].start ELSE key[d]
           next == (k + SECTION_SIZE) % AddrMod
       IN  /\ pgmap_radix' = pgmap_radix
           /\ IF next <= res[d].end
              THEN /\ pgmap_lock' = d
                   /\ key' = [key EXCEPT ![d] = next]
                   /\ pc' = [pc EXCEPT ![d] = "rr_walk"]
              ELSE /\ pgmap_lock' = NoDev
                   /\ key' = [key EXCEPT ![d] = 0]
                   /\ pc' = [pc EXCEPT ![d] =
                         IF cont[d] = "err" THEN "err_free" ELSE "remove_memory"]
    /\ UNCHANGED <<page_map, nrecs, devres, mem_added, mem_removed,
                   res, is_ram, cur, error, cont, ret>>
    /\ UNCHANGED <<rdvars, mapvars>>

(* ---------------------- pgmap_radix_release(res) ---------------------- *)
\* one iteration of the loop of pgmap_radix_release(): for the first one
\* mutex_lock(&pgmap_lock) and key = res->start come before it, and when it
\* is the last one mutex_unlock and the return to the caller follow it
pgmap_radix_release(d) ==
    /\ pc[d] \in {"rr_lock", "rr_walk"}
    /\ pc[d] = "rr_lock" => pgmap_lock = NoDev
    /\ LET k == IF pc[d] = "rr_lock" THEN res[d].start ELSE key[d]
           next == (k + SECTION_SIZE) % AddrMod
       IN  /\ pgmap_radix' = radix_tree_delete(pgmap_radix, SectionOf(k))
           /\ IF next <= res[d].end
              THEN /\ pgmap_lock' = d
                   /\ key' = [key EXCEPT ![d] = next]
                   /\ pc' = [pc EXCEPT ![d] = "rr_walk"]
              ELSE /\ pgmap_lock' = NoDev
                   /\ key' = [key EXCEPT ![d] = 0]
                   /\ pc' = [pc EXCEPT ![d] =
                         IF cont[d] = "err" THEN "err_free" ELSE "remove_memory"]
    /\ UNCHANGED <<page_map, nrecs, devres, mem_added, mem_removed,
                   res, is_ram, cur, error, cont, ret>>
    /\ UNCHANGED <<rdvars, mapvars>>

(* ----------------- device teardown (devres release) ------------------- *)
\* the locals of a finished call go out of scope
Locals(d) ==
    /\ res' = [res EXCEPT ![d] = NoRes]
    /\ is_ram' = [is_ram EXCEPT ![d] = REGION_DISJOINT]
    /\ cur' = [cur EXCEPT ![d] = NULL]
    /\ key' = [key EXCEPT ![d] = 0]
    /\ error' = [error EXCEPT ![d] = 0]
    /\ cont' = [cont EXCEPT ![d] = "none"]
    /\ ret' = [ret EXCEPT ![d] = NoRet]

\* the caller has taken the value the call returned
call_return(d) ==
    /\ pc[d] = "done"
    /\ pc' = [pc EXCEPT ![d] = "idle"]
    /\ Locals(d)
    /\ mem_added' = IF cur[d] # NULL /\ page_map[cur[d]].st = "freed"
                    THEN [mem_added EXCEPT ![cur[d]] = NoRange] ELSE mem_added
    /\ UNCHANGED <<pgmap_lock, pgmap_radix, page_map, nrecs, mem_removed>>
    /\ UNCHANGED <<devres, rdvars, mapvars>>

\* a variant for C6: the hook calls arch_remove_memory() first and
\* pgmap_radix_release() after it
pages_release_remove_first(d) ==
    /\ pc[d] \in {"idle", "release"}
    /\ devres[d] # <<>>
    /\ LET hook == devres[d][Len(devres[d])]
           r == [start |-> page_map[hook[2]].start, end |-> page_map[hook[2]].end]
       IN  /\ hook[1] = "pages"
           /\ cur' = [cur EXCEPT ![d] = hook[2]]
           /\ res' = [res EXCEPT ![d] = r]
           /\ mem_removed' = [mem_removed EXCEPT ![hook[2]] = AlignedRange(r)]
    /\ devres' = [devres EXCEPT ![d] = SubSeq(@, 1, Len(@) - 1)]
    /\ cont' = [cont EXCEPT ![d] = "release"]
    /\ pc' = [pc EXCEPT ![d] = "rr_lock"]
    /\ UNCHANGED <<pgmap_lock, pgmap_radix, page_map, nrecs, mem_added>>
    /\ UNCHANGED <<is_ram, key, error, ret, rdvars, mapvars>>

\* devm_memremap_pages_release(dev, page_map), run by the devres core for
\* the most recent entry of a device being torn down: it starts with
\* pgmap_radix_release(&page_map->res)
devm_memremap_pages_release(d) ==
    /\ pc[d] \in {"idle", "release"}
    /\ devres[d] # <<>>
    /\ LET hook == devres[d][Len(devres[d])]
       IN  /\ hook[1] = "pages"
           /\ cur' = [cur EXCEPT ![d] = hook[2]]
           /\ res' = [res EXCEPT ![d] = [start |-> page_map[hook[2]].start,
                                         end |-> page_map[hook[2]].end]]
    /\ devres' = [devres EXCEPT ![d] = SubSeq(@, 1, Len(@) - 1)]
    /\ cont' = [cont EXCEPT ![d] = "release"]
    /\ pc' = [pc EXCEPT ![d] = "rr_lock"]
    /\ UNCHANGED <<regvars, is_ram, key, error, ret, rdvars, mapvars>>

\* the rest of devm_memremap_pages_release(): arch_remove_memory() on the
\* aligned range
pages_remove_memory(d) ==
    /\ pc[d] = "remove_memory"
    /\ mem_removed' = [mem_removed EXCEPT ![cur[d]] = AlignedRange(res[d])]
    /\ pc' = [pc EXCEPT ![d] = "kfree"]
    /\ UNCHANGED <<pgmap_lock, pgmap_radix, page_map, nrecs, devres, mem_added,
                   res, is_ram, cur, key, error, cont, ret>>
    /\ UNCHANGED <<rdvars, mapvars>>

\* the release hook has returned: the devres core frees the entry, which
\* holds the page_map, and goes on to the next entry of the device, if any
pages_kfree(d) ==
    /\ pc[d] = "kfree"
    /\ page_map' = [page_map EXCEPT ![cur[d]] = FreedMap]
    /\ mem_added' = [mem_added EXCEPT ![cur[d]] = NoRange]
    /\ mem_removed' = [mem_removed EXCEPT ![cur[d]] = NoRange]
    /\ pc' = [pc EXCEPT ![d] = IF devres[d] = <<>> THEN "idle" ELSE "release"]
    /\ res' = [res EXCEPT ![d] = NoRes]
    /\ cur' = [cur EXCEPT ![d] = NULL]
    /\ cont' = [cont EXCEPT ![d] = "none"]
    /\ UNCHANGED <<pgmap_lock, pgmap_radix, nrecs, devres, is_ram, key, error, ret>>
    /\ UNCHANGED <<rdvars, mapvars>>

(* ------------------------------ readers ------------------------------- *)
rcu_read_lock(r) ==
    /\ ~rd_in[r]
    /\ rd_in' = [rd_in EXCEPT ![r] = TRUE]
    /\ UNCHANGED <<regvars, devres, pc, locvars, rd_rec, mapvars>>

\* a lookup inside the read-side critical section
reader_find(r) ==
    /\ rd_in[r]
    /\ \E phys \in Addrs : rd_rec' = [rd_rec EXCEPT ![r] = find_dev_pagemap(phys)]
    /\ UNCHANGED <<regvars, devres, pc, locvars, rd_in, mapvars>>

rcu_read_unlock(r) ==
    /\ rd_in[r]
    /\ rd_in' = [rd_in EXCEPT ![r] = FALSE]
    /\ rd_rec' = [rd_rec EXCEPT ![r] = NULL]
    /\ UNCHANGED <<regvars, devres, pc, locvars, mapvars>>

(* ----------------------------- memremap() ------------------------------ *)
\* flags & bit, for a single-bit mask
HasFlag(flags, bit) == (flags \div bit) % 2 = 1
\* flags & ~bit
ClearFlag(flags, bit) == IF HasFlag(flags, bit) THEN flags - bit ELSE flags

\* a variant for C10: the direct map is never available
try_ram_remap_unavailable(offset, highmem) == NullPtr

\* try_ram_remap(): the linear address unless the page is in highmem
try_ram_remap(offset, highmem) == IF ~highmem THEN VA(offset) ELSE NullPtr

\* a variant for C9: memremap() without the test for REGION_MIXED
memremap_unclassified(offset, region, flags, highmem, cache, wt) ==
    LET wb == HasFlag(flags, MEMREMAP_WB)
        flags1 == ClearFlag(flags, MEMREMAP_WB)
        ram == wb /\ region = REGION_INTERSECTS
        addr1 == IF ram THEN try_ram_remap(offset, highmem) ELSE NullPtr
        calls1 == IF ram THEN <<<<"try_ram_remap", addr1>>>> ELSE <<>>
        io == wb /\ addr1 = NullPtr
        addr2 == IF io THEN cache ELSE addr1
        calls2 == IF io THEN Append(calls1, <<"ioremap_cache", cache>>) ELSE calls1
    IN  IF addr2 = NullPtr /\ region = REGION_INTERSECTS /\ flags1 # 0
        THEN [addr |-> NullPtr, calls |-> calls2]
        ELSE IF addr2 = NullPtr /\ HasFlag(flags1, MEMREMAP_WT)
        THEN [addr |-> wt, calls |-> Append(calls2, <<"ioremap_wt", wt>>)]
        ELSE [addr |-> addr2, calls |-> calls2]

\* a variant for C11 and C16: memremap() without the test that refuses to
\* alias "System RAM"
memremap_aliasing(offset, region, flags, highmem, cache, wt) ==
    LET wb == HasFlag(flags, MEMREMAP_WB)
        flags1 == ClearFlag(flags, MEMREMAP_WB)
        ram == wb /\ region = REGION_INTERSECTS
        addr1 == IF ram THEN try_ram_remap(offset, highmem) ELSE NullPtr
        calls1 == IF ram THEN <<<<"try_ram_remap", addr1>>>> ELSE <<>>
        io == wb /\ addr1 = NullPtr
        addr2 == IF io THEN cache ELSE addr1
        calls2 == IF io THEN Append(calls1, <<"ioremap_cache", cache>>) ELSE calls1
    IN  IF region = REGION_MIXED
        THEN [addr |-> NullPtr, calls |-> <<>>]
        ELSE IF addr2 = NullPtr /\ HasFlag(flags1, MEMREMAP_WT)
        THEN [addr |-> wt, calls |-> Append(calls2, <<"ioremap_wt", wt>>)]
        ELSE [addr |-> addr2, calls |-> calls2]

\* a variant for C17: ioremap_wt() is called whenever MEMREMAP_WT is set,
\* also after ioremap_cache() has produced a mapping
memremap_wt_always(offset, region, flags, highmem, cache, wt) ==
    LET wb == HasFlag(flags, MEMREMAP_WB)
        flags1 == ClearFlag(flags, MEMREMAP_WB)
        ram == wb /\ region = REGION_INTERSECTS
        addr1 == IF ram THEN try_ram_remap(offset, highmem) ELSE NullPtr
        calls1 == IF ram THEN <<<<"try_ram_remap", addr1>>>> ELSE <<>>
        io == wb /\ addr1 = NullPtr
        addr2 == IF io THEN cache ELSE addr1
        calls2 == IF io THEN Append(calls1, <<"ioremap_cache", cache>>) ELSE calls1
    IN  IF region = REGION_MIXED
        THEN [addr |-> NullPtr, calls |-> <<>>]
        ELSE IF addr2 = NullPtr /\ region = REGION_INTERSECTS /\ flags1 # 0
        THEN [addr |-> NullPtr, calls |-> calls2]
        ELSE IF HasFlag(flags1, MEMREMAP_WT)
        THEN [addr |-> wt, calls |-> Append(calls2, <<"ioremap_wt", wt>>)]
        ELSE [addr |-> addr2, calls |-> calls2]

\* memremap(offset, size, flags), given what region_intersects() says of the
\* range, whether its first page is in highmem, and what ioremap_cache() and
\* ioremap_wt() return when they are called: the address returned and the
\* calls made, in order
memremap(offset, region, flags, highmem, cache, wt) ==
    LET wb == HasFlag(flags, MEMREMAP_WB)
        flags1 == ClearFlag(flags, MEMREMAP_WB)
        ram == wb /\ region = REGION_INTERSECTS
        addr1 == IF ram THEN try_ram_remap(offset, highmem) ELSE NullPtr
        calls1 == IF ram THEN <<<<"try_ram_remap", addr1>>>> ELSE <<>>
        io == wb /\ addr1 = NullPtr
        addr2 == IF io THEN cache ELSE addr1
        calls2 == IF io THEN Append(calls1, <<"ioremap_cache", cache>>) ELSE calls1
    IN  IF region = REGION_MIXED
        THEN [addr |-> NullPtr, calls |-> <<>>]
        ELSE IF addr2 = NullPtr /\ region = REGION_INTERSECTS /\ flags1 # 0
        THEN [addr |-> NullPtr, calls |-> calls2]
        ELSE IF addr2 = NullPtr /\ HasFlag(flags1, MEMREMAP_WT)
        THEN [addr |-> wt, calls |-> Append(calls2, <<"ioremap_wt", wt>>)]
        ELSE [addr |-> addr2, calls |-> calls2]

\* is_vmalloc_addr()
is_vmalloc_addr(addr) == addr[1] = "io"

\* iounmap() of a mapping
iounmap(maps, addr) ==
    [maps EXCEPT ![addr[2]] = [@ EXCEPT !.st = "unmapped", !.unmaps = @ + 1]]

\* memunmap(addr)
memunmap(maps, addr) == IF is_vmalloc_addr(addr) THEN iounmap(maps, addr) ELSE maps

\* the mappings in place after a call that returned addr
Established(addr) ==
    IF is_vmalloc_addr(addr)
    THEN [vmaps EXCEPT ![addr[2]] = [st |-> "mapped", unmaps |-> 0, devm |-> FALSE]]
    ELSE vmaps

\* the same after devm_memremap() stored addr in its devres entry (*ptr = addr)
Managed(addr) ==
    IF is_vmalloc_addr(addr)
    THEN [vmaps EXCEPT ![addr[2]] = [st |-> "mapped", unmaps |-> 0, devm |-> TRUE]]
    ELSE vmaps

\* what an ioremap call returns: nothing, or a new mapping while the
\* vmalloc area has room
IoResults == {NullPtr} \cup (IF nmaps < MaxMaps THEN {IO(nmaps + 1)} ELSE {})

\* the addresses memremap() handed out that are still mapped and that no
\* devres entry owns
Held ==
    {IO(m) : m \in {n \in 1 .. MaxMaps :
        /\ vmaps[n].st = "mapped"
        /\ \A d \in Devs : \A i \in 1 .. Len(devres[d]) : devres[d][i] # <<"memremap", IO(n)>>}}

\* a thread calls memremap() and receives what it returns
memremap_call(d, offset, region, flags, highmem, cache, wt) ==
    /\ pc[d] = "idle"
    /\ LET r == memremap(offset, region, flags, highmem, cache, wt)
       IN  /\ vmaps' = Established(r.addr)
           /\ nmaps' = IF is_vmalloc_addr(r.addr) THEN nmaps + 1 ELSE nmaps
           /\ last' = [op |-> "memremap", offset |-> offset, region |-> region,
                       flags |-> flags, highmem |-> highmem,
                       addr |-> r.addr, calls |-> r.calls]
           /\ ret' = [ret EXCEPT ![d] = r.addr]
    /\ pc' = [pc EXCEPT ![d] = "done"]
    /\ UNCHANGED <<regvars, devres, res, is_ram, cur, key, error, cont, rdvars>>

\* a thread calls memunmap() on an address it holds
memunmap_call(d, addr) ==
    /\ pc[d] = "idle"
    /\ vmaps' = memunmap(vmaps, addr)
    /\ UNCHANGED <<regvars, devres, pc, locvars, rdvars, nmaps>>

\* devm_memremap(dev, offset, size, flags), given also whether
\* devres_alloc_node() succeeds
devm_memremap(d, offset, region, flags, highmem, cache, wt, alloc) ==
    /\ pc[d] = "idle"
    /\ LET r == memremap(offset, region, flags, highmem, cache, wt)
           call == [op |-> "devm_memremap", offset |-> offset, region |-> region,
                    flags |-> flags, highmem |-> highmem, addr |-> NoRet, calls |-> <<>>]
           out == IF ~alloc THEN ERR_PTR(ENOMEM)
                  ELSE IF r.addr # NullPtr THEN r.addr ELSE ERR_PTR(ENXIO)
       IN  /\ IF alloc /\ r.addr # NullPtr
              THEN /\ Len(devres[d]) < MaxHooks
                   /\ vmaps' = Managed(r.addr)
                   /\ nmaps' = IF is_vmalloc_addr(r.addr) THEN nmaps + 1 ELSE nmaps
                   /\ devres' = [devres EXCEPT ![d] = Append(@, <<"memremap", r.addr>>)]
              ELSE UNCHANGED <<vmaps, nmaps, devres>>
           /\ last' = [call EXCEPT !.addr = out,
                                   !.calls = IF alloc THEN r.calls ELSE <<>>]
           /\ ret' = [ret EXCEPT ![d] = out]
    /\ pc' = [pc EXCEPT ![d] = "done"]
    /\ UNCHANGED <<regvars, res, is_ram, cur, key, error, cont, rdvars>>

\* devm_memremap_match(): the most recent devres entry of d that was added
\* by devm_memremap() for addr, 0 when there is none
devm_memremap_match(d, addr) ==
    LET hits == {i \in 1 .. Len(devres[d]) : devres[d][i] = <<"memremap", addr>>}
    IN  IF hits = {} THEN 0 ELSE CHOOSE i \in hits : \A j \in hits : j <= i

\* the sequence without its i-th element
Remove(seq, i) == SubSeq(seq, 1, i - 1) \o SubSeq(seq, i + 1, Len(seq))

\* a variant for C13: devm_memunmap() unmaps and leaves the devres entry
devm_memunmap_keep_entry(d, addr) ==
    /\ pc[d] = "idle"
    /\ LET i == devm_memremap_match(d, addr)
       IN  IF i = 0
           THEN UNCHANGED <<vmaps, devres>>
           ELSE /\ vmaps' = memunmap(vmaps, addr)
                /\ UNCHANGED devres
    /\ UNCHANGED <<regvars, pc, locvars, rdvars, nmaps>>

\* devm_memunmap(dev, addr): devres_release() removes the matching entry
\* and runs devm_memremap_release() on it; without a match it only warns
devm_memunmap(d, addr) ==
    /\ pc[d] = "idle"
    /\ LET i == devm_memremap_match(d, addr)
       IN  IF i = 0
           THEN UNCHANGED <<vmaps, devres>>
           ELSE /\ vmaps' = memunmap(vmaps, addr)
                /\ devres' = [devres EXCEPT ![d] = Remove(@, i)]
    /\ UNCHANGED <<regvars, pc, locvars, rdvars, nmaps>>

\* devm_memremap_release(dev, res), run by the devres core for the most
\* recent entry of a device being torn down
devm_memremap_release(d) ==
    /\ pc[d] \in {"idle", "release"}
    /\ devres[d] # <<>>
    /\ LET hook == devres[d][Len(devres[d])]
       IN  /\ hook[1] = "memremap"
           /\ vmaps' = memunmap(vmaps, hook[2])
    /\ devres' = [devres EXCEPT ![d] = SubSeq(@, 1, Len(@) - 1)]
    /\ pc' = [pc EXCEPT ![d] = IF Len(devres[d]) = 1 THEN "idle" ELSE "release"]
    /\ UNCHANGED <<regvars, locvars, rdvars, nmaps>>

(* --------------------------- specifications --------------------------- *)
\* Spec: devices claim and release device memory (ranges disjoint from
\* "System RAM") concurrently with each other and with RCU readers
Claim ==
    \E d \in Devs, r \in Resources :
        devm_memremap_pages(d, r, REGION_DISJOINT, TRUE) /\ UNCHANGED hist
ClaimInsert == \E d \in Devs : pages_insert(d) /\ UNCHANGED hist
ClaimAddMemory == \E d \in Devs : pages_add_memory(d) /\ UNCHANGED hist
ClaimErrFree == \E d \in Devs : pages_err_free(d) /\ UNCHANGED hist
ClaimReturn == \E d \in Devs : call_return(d) /\ UNCHANGED hist
RadixRelease == \E d \in Devs : pgmap_radix_release(d) /\ UNCHANGED hist
PagesRelease == \E d \in Devs : devm_memremap_pages_release(d) /\ UNCHANGED hist
PagesRemoveMemory == \E d \in Devs : pages_remove_memory(d) /\ UNCHANGED hist
PagesKfree == \E d \in Devs : pages_kfree(d) /\ UNCHANGED hist
ReadLock == \E r \in Readers : rcu_read_lock(r) /\ UNCHANGED hist
ReadFind == \E r \in Readers : reader_find(r) /\ UNCHANGED hist
ReadUnlock == \E r \in Readers : rcu_read_unlock(r) /\ UNCHANGED hist

Next ==
    \/ Claim \/ ClaimInsert \/ ClaimAddMemory \/ ClaimErrFree \/ ClaimReturn
    \/ RadixRelease
    \/ PagesRelease \/ PagesRemoveMemory \/ PagesKfree
    \/ ReadLock \/ ReadFind \/ ReadUnlock

Spec == Init /\ [][Next]_vars

\* an outcome is drawn for a collaborator only when the flags can reach it
Flags == 0 .. MaxFlags
Highmems(region, flags) ==
    IF region = REGION_INTERSECTS /\ HasFlag(flags, MEMREMAP_WB) THEN BOOLEAN ELSE {FALSE}
CacheResults(flags) == IF HasFlag(flags, MEMREMAP_WB) THEN IoResults ELSE {NullPtr}
WtResults(flags) == IF HasFlag(flags, MEMREMAP_WT) THEN IoResults ELSE {NullPtr}

\* SpecSeq: the same steps, with a call starting only when no other call and
\* no lookup is in progress.  Claims take every classification and outcome
\* of the allocation; memremap() and devm_memremap() are called on mixed
\* ranges (on other ranges they are the subject of SpecRemap)
Quiescent == (\A d \in Devs : pc[d] = "idle") /\ (\A r \in Readers : ~rd_in[r])

SeqClaim ==
    /\ Quiescent
    /\ \E d \in Devs, r \in Resources, region \in Regions, alloc \in BOOLEAN :
        devm_memremap_pages(d, r, region, alloc)
    /\ pre' = pgmap_radix
    /\ UNCHANGED last
SeqReturn == (\E d \in Devs : call_return(d)) /\ last' = NoCall /\ UNCHANGED pre
SeqPagesRelease ==
    /\ \E d \in Devs : (Quiescent \/ pc[d] = "release") /\ devm_memremap_pages_release(d)
    /\ pre' = pgmap_radix
    /\ UNCHANGED last
SeqReadLock == Quiescent /\ ReadLock
SeqMemremapMixed ==
    /\ Quiescent
    /\ \E d \in Devs, offset \in Addrs, flags \in Flags :
       \E cache \in CacheResults(flags), wt \in WtResults(flags) :
        memremap_call(d, offset, REGION_MIXED, flags, FALSE, cache, wt)
    /\ pre' = pgmap_radix
SeqDevmMemremapMixed ==
    /\ Quiescent
    /\ \E d \in Devs, offset \in Addrs, flags \in Flags, alloc \in BOOLEAN :
       \E cache \in CacheResults(flags), wt \in WtResults(flags) :
        devm_memremap(d, offset, REGION_MIXED, flags, FALSE, cache, wt, alloc)
    /\ pre' = pgmap_radix

NextSeq ==
    \/ SeqClaim \/ ClaimInsert \/ ClaimAddMemory \/ ClaimErrFree \/ SeqReturn
    \/ RadixRelease
    \/ SeqPagesRelease \/ PagesRemoveMemory \/ PagesKfree
    \/ SeqReadLock \/ ReadFind \/ ReadUnlock
    \/ SeqMemremapMixed \/ SeqDevmMemremapMixed

SpecSeq == Init /\ [][NextSeq]_vars

\* SpecRemap: one thread, working for one device, calls memremap(),
\* memunmap(), devm_memremap() and devm_memunmap() with every classification,
\* and the device is torn down
Caller == "devA"

Memremap ==
    /\ \E offset \in Addrs, region \in Regions, flags \in Flags :
       \E highmem \in Highmems(region, flags),
          cache \in CacheResults(flags), wt \in WtResults(flags) :
        memremap_call(Caller, offset, region, flags, highmem, cache, wt)
    /\ UNCHANGED pre
Memunmap ==
    /\ \E addr \in Held \cup {VA(a) : a \in Addrs} : memunmap_call(Caller, addr)
    /\ UNCHANGED hist
DevmMemremap ==
    /\ \E offset \in Addrs, region \in Regions, flags \in Flags, alloc \in BOOLEAN :
       \E highmem \in Highmems(region, flags),
          cache \in CacheResults(flags), wt \in WtResults(flags) :
        devm_memremap(Caller, offset, region, flags, highmem, cache, wt, alloc)
    /\ UNCHANGED pre
DevmMemunmap ==
    /\ \E addr \in {IO(m) : m \in 1 .. MaxMaps} \cup {VA(a) : a \in Addrs} :
        devm_memunmap(Caller, addr)
    /\ UNCHANGED hist
DevmMemremapRelease == devm_memremap_release(Caller) /\ UNCHANGED hist
RemapReturn == call_return(Caller) /\ last' = NoCall /\ UNCHANGED pre

NextRemap ==
    \/ Memremap \/ Memunmap \/ DevmMemremap \/ DevmMemunmap
    \/ DevmMemremapRelease \/ RemapReturn

SpecRemap == Init /\ [][NextRemap]_vars

\* SpecRelease: pgmap_radix_release(res) alone, applied by one thread to a
\* drawn range on a drawn registry, and then applied to the same range again
ReleaseSections == 0 .. (SectionOf(MaxAddr) + 1)
Registries ==
    {t \in [Sections -> {NULL} \cup Recs] : \A s \in Sections \ ReleaseSections : t[s] = NULL}

InitRelease ==
    /\ pgmap_lock = NoDev
    /\ pgmap_radix \in Registries
    /\ page_map = [p \in Recs |-> NoMap]
    /\ nrecs = 0
    /\ devres = [d \in Devs |-> <<>>]
    /\ mem_added = [p \in Recs |-> NoRange]
    /\ mem_removed = [p \in Recs |-> NoRange]
    /\ pc = [d \in Devs |-> IF d = Caller THEN "rr_lock" ELSE "idle"]
    /\ \E r \in Resources : res = [d \in Devs |-> IF d = Caller THEN r ELSE NoRes]
    /\ is_ram = [d \in Devs |-> REGION_DISJOINT]
    /\ cur = [d \in Devs |-> NULL]
    /\ key = [d \in Devs |-> 0]
    /\ error = [d \in Devs |-> 0]
    /\ cont = [d \in Devs |-> IF d = Caller THEN "once" ELSE "none"]
    /\ ret = [d \in Devs |-> NoRet]
    /\ pre = pgmap_radix
    /\ rd_in = [r \in Readers |-> FALSE]
    /\ rd_rec = [r \in Readers |-> NULL]
    /\ vmaps = [m \in 1 .. MaxMaps |-> NoVmap]
    /\ nmaps = 0
    /\ last = NoCall

\* pgmap_radix_release(res) has returned to its caller
Released(d) == pc[d] = "remove_memory"

\* the caller calls pgmap_radix_release(res) again
ReleaseAgain ==
    /\ Released(Caller)
    /\ cont[Caller] = "once"
    /\ cont' = [cont EXCEPT ![Caller] = "twice"]
    /\ pc' = [pc EXCEPT ![Caller] = "rr_lock"]
    /\ pre' = pgmap_radix
    /\ UNCHANGED <<regvars, devres, res, is_ram, cur, key, error, ret>>
    /\ UNCHANGED <<rdvars, mapvars, last>>

NextRelease == RadixRelease \/ ReleaseAgain

SpecRelease == InitRelease /\ [][NextRelease]_vars

\* SpecWalk: claims and releases, one call at a time, of ranges that also
\* lie at the top of the address space.  A thread that is in a section walk
\* keeps running: both loops are fair
TopAddrs == (AddrMod - SECTION_SIZE - 1) .. (AddrMod - 1)
WalkResources ==
    Resources \cup {r \in [start : TopAddrs, end : TopAddrs] : r.start <= r.end}

WalkClaim ==
    /\ Quiescent
    /\ \E d \in Devs, r \in WalkResources :
        devm_memremap_pages(d, r, REGION_DISJOINT, TRUE)
    /\ pre' = pgmap_radix
    /\ UNCHANGED last

NextWalk ==
    \/ WalkClaim \/ ClaimInsert \/ ClaimAddMemory \/ ClaimErrFree \/ SeqReturn
    \/ RadixRelease
    \/ SeqPagesRelease \/ PagesRemoveMemory \/ PagesKfree

SpecWalk ==
    Init /\ [][NextWalk]_vars /\ WF_vars(ClaimInsert) /\ WF_vars(RadixRelease)

(* ------------------------------- claims ------------------------------- *)
\* the claims that succeeded and whose release has not begun
LiveClaims ==
    {p \in Recs : \E d \in Devs : \E i \in 1 .. Len(devres[d]) : devres[d][i] = <<"pages", p>>}
RangeOf(p) == [start |-> page_map[p].start, end |-> page_map[p].end]
\* device d has just returned from devm_memremap_pages()
ClaimReturned(d) == pc[d] = "done" /\ last = NoCall
\* the names of the collaborators a call of memremap() reached
Called(call) == {call.calls[i][1] : i \in 1 .. Len(call.calls)}

\* C1: a claim of a range that shares a Section with the range of a live
\* claim fails with -EBUSY, and when it has returned the registry maps every
\* Section as it did before the attempt (failures of an allocation aside)
C1_CollidingClaimFailsAndRestores ==
    \A d \in Devs :
        (/\ ClaimReturned(d)
         /\ is_ram[d] = REGION_DISJOINT
         /\ cur[d] # NULL
         /\ ret[d] # ERR_PTR(ENOMEM)
         /\ \E p \in LiveClaims \ {cur[d]} :
                CoveredSections(res[d]) \cap CoveredSections(RangeOf(p)) # {})
        => (ret[d] = ERR_PTR(EBUSY) /\ pgmap_radix = pre)

\* C2: no Section is covered by the ranges of two different live claims
C2_ExclusiveOwnership ==
    \A p \in LiveClaims, q \in LiveClaims :
        p # q => CoveredSections(RangeOf(p)) \cap CoveredSections(RangeOf(q)) = {}

\* C3: when a claim of a range disjoint from RAM returns with success, a
\* Section resolves to the claim's page_map exactly if it contains an address
\* of the range
C3_ClaimCoversItsSections ==
    \A d \in Devs :
        (ClaimReturned(d) /\ is_ram[d] = REGION_DISJOINT /\ ret[d] = VA(res[d].start))
        => \A s \in Sections :
               (pgmap_radix[s] = cur[d]) <=> (s \in CoveredSections(res[d]))

\* C4: whenever a Section resolves to a page_map, every Section its range
\* covers resolves to it, and the claim it belongs to has not failed
C4_NoPartialClaimVisible ==
    \A s \in Sections :
        pgmap_radix[s] # NULL =>
            /\ \A t \in CoveredSections(RangeOf(pgmap_radix[s])) :
                   pgmap_radix[t] = pgmap_radix[s]
            /\ \A d \in Devs : cur[d] = pgmap_radix[s] => error[d] = 0

\* C5: a page_map is not freed while a reader that got it from
\* find_dev_pagemap() is inside its read-side critical section
C5_NoFreeUnderReader ==
    \A r \in Readers :
        (rd_in[r] /\ rd_rec[r] # NULL) => page_map[rd_rec[r]].st # "freed"

\* C6: once the release hook of a claim is about to call, or has called,
\* arch_remove_memory(), no Section resolves to the claim's page_map
C6_RegistryEmptiedBeforeRemoval ==
    /\ \A d \in Devs :
           (pc[d] \in {"remove_memory", "kfree"}) =>
               \A s \in Sections : pgmap_radix[s] # cur[d]
    /\ \A p \in Recs :
           mem_removed[p] # NoRange => \A s \in Sections : pgmap_radix[s] # p
C6_Witness ==
    \E d \in Devs :
        /\ pc[d] = "kfree"
        /\ mem_removed[cur[d]] # NoRange
        /\ Cardinality(CoveredSections(res[d])) > 1
        /\ \E r \in Readers : rd_in[r]
        /\ pgmap_radix # EmptyRadix

\* C7: a claim whose arch_add_memory() failed returns that error, has left no
\* Section resolving to its page_map, has restored the registry to what it
\* was before the claim, and has registered no release hook
C7_HotplugFailureRollsBack ==
    \A d \in Devs :
        (/\ ClaimReturned(d)
         /\ cur[d] # NULL
         /\ mem_added[cur[d]] # NoRange
         /\ error[d] # 0)
        => /\ ret[d] = ERR_PTR(error[d])
           /\ error[d] = EEXIST
           /\ \A s \in Sections : pgmap_radix[s] # cur[d]
           /\ pgmap_radix = pre
           /\ cur[d] \notin LiveClaims
C7_Witness ==
    \E d \in Devs :
        /\ ClaimReturned(d)
        /\ cur[d] # NULL
        /\ mem_added[cur[d]] # NoRange
        /\ ret[d] = ERR_PTR(EEXIST)
        /\ Cardinality(CoveredSections(res[d])) > 1
        /\ pre # EmptyRadix

\* C8: when the release hook of a live claim has emptied the registry of the
\* claim, find_dev_pagemap() finds no page_map for any address of its range
C8_ReleasedRangeHasNoOwner ==
    \A d \in Devs :
        (pc[d] \in {"remove_memory", "kfree"}) =>
            \A a \in res[d].start .. res[d].end : find_dev_pagemap(a) = NULL

\* a step in which device d calls an entry point on a mixed range, and
\* returns from it
MixedCall(d) ==
    /\ pc[d] = "idle"
    /\ pc'[d] = "done"
    /\ \/ last'.op \in {"memremap", "devm_memremap"} /\ last'.region = REGION_MIXED
       \/ last' = NoCall /\ is_ram'[d] = REGION_MIXED
\* the step reaches no mapping or hotplug collaborator, leaves the registry
\* as it was and registers no release hook
MixedCallHasNoEffect ==
    /\ last'.calls = <<>>
    /\ UNCHANGED <<pgmap_radix, devres, vmaps, nmaps, mem_added, mem_removed, page_map>>

\* C9 as stated: on a mixed range every entry point fails with its
\* "ambiguous region" result (NULL from memremap, -ENXIO from the other two)
\* and has no effect
C9_MixedFailsAmbiguous ==
    [][\A d \in Devs :
        MixedCall(d) =>
            /\ ret'[d] = IF last'.op = "memremap" THEN NullPtr ELSE ERR_PTR(ENXIO)
            /\ MixedCallHasNoEffect]_vars

\* C9 amended: as above, except that devm_memremap() returns -ENOMEM when the
\* allocation of its devres entry fails
C9_MixedFailsWithoutEffect ==
    [][\A d \in Devs :
        MixedCall(d) =>
            /\ ret'[d] \in
                 IF last'.op = "memremap" THEN {NullPtr}
                 ELSE IF last'.op = "devm_memremap"
                      THEN {ERR_PTR(ENXIO), ERR_PTR(ENOMEM)}
                      ELSE {ERR_PTR(ENXIO)}
            /\ MixedCallHasNoEffect]_vars
C9_Witness ==
    \E d \in Devs :
        /\ pc[d] = "done"
        /\ last.op = "devm_memremap"
        /\ last.region = REGION_MIXED
        /\ last.flags = MEMREMAP_WB + MEMREMAP_WT
        /\ ret[d] = ERR_PTR(ENXIO)
        /\ pgmap_radix # EmptyRadix

\* a call of memremap() on RAM with exactly MEMREMAP_WB has returned
WbOnRam == last.op = "memremap" /\ last.region = REGION_INTERSECTS /\ last.flags = MEMREMAP_WB

WbWtOnRam ==
    /\ last.op = "memremap"
    /\ last.region = REGION_INTERSECTS
    /\ last.flags = MEMREMAP_WB + MEMREMAP_WT

\* C11 as stated: such a call returns NULL and has called neither
\* try_ram_remap() nor ioremap_cache() nor ioremap_wt()
C11_WbWtOnRamFailsUntried ==
    WbWtOnRam => (last.addr = NullPtr /\ last.calls = <<>>)

\* C11 amended: such a call tries the direct map first and returns it when
\* the page is not in highmem; when it is, the call returns what
\* ioremap_cache() returns, which is NULL when no mapping could be made;
\* ioremap_wt() is never called
C11_WbWtOnRamTriesWriteBack ==
    WbWtOnRam =>
        /\ "ioremap_wt" \notin Called(last)
        /\ IF ~last.highmem
           THEN last.calls = <<<<"try_ram_remap", VA(last.offset)>>>>
                /\ last.addr = VA(last.offset)
           ELSE last.calls = <<<<"try_ram_remap", NullPtr>>, <<"ioremap_cache", last.addr>>>>
C11_Witness == WbWtOnRam /\ last.highmem /\ last.addr = NullPtr /\ Len(last.calls) = 2

\* C12: pgmap_radix_release() on a range none of whose sections has an
\* entry leaves the registry as it was, a second pgmap_radix_release() on a
\* range leaves the registry as the first one left it, and neither reports
\* an error
C12_ReleaseIdempotent ==
    \A d \in Devs :
        /\ (Released(d) /\ cont[d] = "once") =>
               /\ error[d] = 0
               /\ (\A s \in CoveredSections(res[d]) : pre[s] = NULL) => pgmap_radix = pre
        /\ (Released(d) /\ cont[d] = "twice") =>
               (error[d] = 0 /\ pgmap_radix = pre)
C12_Witness ==
    /\ Released(Caller)
    /\ cont[Caller] = "twice"
    /\ Cardinality(CoveredSections(res[Caller])) > 1
    /\ pgmap_radix # EmptyRadix
    /\ \E s \in CoveredSections(res[Caller]) : pgmap_radix[s] = NULL

\* the devres entries of devm_memremap() that hold mapping m
EntriesOf(m) ==
    {<<d, i>> \in Devs \X (1 .. MaxHooks) :
        i <= Len(devres[d]) /\ devres[d][i] = <<"memremap", IO(m)>>}
\* a mapping made by devm_memremap() is in place while one devres entry
\* holds it, and has been unmapped once when none does
ManagedOnce ==
    \A m \in 1 .. MaxMaps :
        vmaps[m].devm =>
            IF EntriesOf(m) # {}
            THEN Cardinality(EntriesOf(m)) = 1 /\ vmaps[m].st = "mapped" /\ vmaps[m].unmaps = 0
            ELSE vmaps[m].st = "unmapped" /\ vmaps[m].unmaps = 1
\* a step in which device d calls devm_memremap() and returns from it
DevmMemremapStep(d) ==
    pc[d] = "idle" /\ pc'[d] = "done" /\ last'.op = "devm_memremap"

\* C13: a mapping devm_memremap() returned is unmapped exactly once, when
\* its devres entry goes (by devm_memunmap() or by the teardown of the
\* device), and not again; a devm_memremap() that fails returns an error
\* and adds no devres entry, and one that succeeds adds the entry of the
\* address it returns
C13_ScopedMappingReleasedOnce ==
    [][/\ ManagedOnce'
       /\ \A d \in Devs :
            DevmMemremapStep(d) =>
                IF ret'[d][1] = "err"
                THEN ret'[d] \in {ERR_PTR(ENXIO), ERR_PTR(ENOMEM)}
                     /\ UNCHANGED <<devres, vmaps>>
                ELSE devres'[d] = Append(devres[d], <<"memremap", ret'[d]>>)]_vars
C13_Witness ==
    /\ \E m \in 1 .. MaxMaps :
           vmaps[m].devm /\ vmaps[m].st = "unmapped" /\ EntriesOf(m) = {}
    /\ pc[Caller] = "done"
    /\ last.op = "devm_memremap"
    /\ last.addr = ERR_PTR(ENXIO)

\* the insert of device d's claim is in flight: its walk has begun and
\* neither the walk nor the rollback of a failed walk has finished
InsertInFlight(d) ==
    \/ pc[d] = "walk"
    \/ /\ pc[d] \in {"rr_lock", "rr_walk"}
       /\ cont[d] = "err"
       /\ mem_added[cur[d]] = NoRange
\* this step is one of device d's
StepOf(d) == pc'[d] # pc[d] \/ key'[d] # key[d]

\* C14: while the insert of a claim is in flight and has inserted a section,
\* every step that changes the registry is a step of that claim
C14_MutationsSerialized ==
    [][\A d \in Devs :
        (/\ InsertInFlight(d)
         /\ \E s \in Sections : pgmap_radix[s] = cur[d]
         /\ pgmap_radix' # pgmap_radix)
        => StepOf(d)]_vars

\* device d's claim has returned the error of a failed insert walk
InsertFailed(d) ==
    /\ ClaimReturned(d)
    /\ cur[d] # NULL
    /\ ret[d] \in {ERR_PTR(EBUSY), ERR_PTR(ENOMEM)}
    /\ mem_added[cur[d]] = NoRange

\* C15: when a claim has returned -EBUSY or the error of radix_tree_insert(),
\* no section of the registry resolves to the page_map of that claim
C15_NoPartialClaimSurvives ==
    \A d \in Devs :
        InsertFailed(d) => \A s \in Sections : pgmap_radix[s] # cur[d]
C15_Witness ==
    \E d \in Devs :
        /\ InsertFailed(d)
        /\ ret[d] = ERR_PTR(EBUSY)
        /\ Cardinality(CoveredSections(res[d])) > 1
        /\ pgmap_radix[SectionOf(res[d].start)] = NULL
        /\ pgmap_radix[SectionOf(res[d].end)] # NULL

\* a call of memremap(), direct or through devm_memremap(), on RAM has returned
RemapOnRam == last.op \in {"memremap", "devm_memremap"} /\ last.region = REGION_INTERSECTS

\* C16: memremap() on RAM never calls ioremap_wt(), and with MEMREMAP_WT
\* alone it returns NULL without calling try_ram_remap(), ioremap_cache() or
\* ioremap_wt()
C16_NoWriteThroughOnRam ==
    RemapOnRam =>
        /\ "ioremap_wt" \notin Called(last)
        /\ (last.op = "memremap" /\ last.flags = MEMREMAP_WT) =>
               (last.addr = NullPtr /\ last.calls = <<>>)
C16_Witness ==
    /\ RemapOnRam
    /\ last.op = "memremap"
    /\ last.flags = MEMREMAP_WT
    /\ last.addr = NullPtr
    /\ pc[Caller] = "done"

\* a call of memremap() on a range disjoint from RAM has returned
RemapOffRam == last.op = "memremap" /\ last.region = REGION_DISJOINT
\* the collaborators such a call reaches, in order, given its flags and
\* what its first call returned
StrategiesOffRam ==
    LET wb == HasFlag(last.flags, MEMREMAP_WB)
        wt == HasFlag(last.flags, MEMREMAP_WT)
    IN  (IF wb THEN <<"ioremap_cache">> ELSE <<>>)
        \o (IF wt /\ (~wb \/ last.calls[1][2] = NullPtr) THEN <<"ioremap_wt">> ELSE <<>>)

\* C17: off RAM memremap() calls ioremap_cache() if MEMREMAP_WB is set, then
\* ioremap_wt() if MEMREMAP_WT is set and there is no mapping yet, never
\* try_ram_remap(); it returns the first mapping a call produced, and NULL
\* exactly when no call produced one
C17_FirstMappingOffRam ==
    RemapOffRam =>
        LET n == Len(last.calls)
            made == {i \in 1 .. n : last.calls[i][2] # NullPtr}
        IN  /\ [i \in 1 .. n |-> last.calls[i][1]] = StrategiesOffRam
            /\ made \subseteq {n}
            /\ last.addr = IF made = {} THEN NullPtr ELSE last.calls[n][2]
C17_Witness ==
    /\ RemapOffRam
    /\ last.flags = MEMREMAP_WB + MEMREMAP_WT
    /\ Len(last.calls) = 2
    /\ last.calls[1] = <<"ioremap_cache", NullPtr>>
    /\ last.addr # NullPtr

\* a step in which device d calls devm_memremap_pages() on RAM
ClaimOnRam(d) ==
    pc[d] = "idle" /\ pc'[d] # "idle" /\ last' = NoCall /\ is_ram'[d] = REGION_INTERSECTS

\* C18: devm_memremap_pages() on RAM returns at once with the direct-map
\* address of the start of the range; it allocates no page_map, leaves the
\* registry as it was, calls neither arch_add_memory() nor
\* arch_remove_memory(), and adds no devres entry for a teardown to run
C18_ClaimOnRamIsNoOp ==
    [][\A d \in Devs :
        ClaimOnRam(d) =>
            /\ pc'[d] = "done"
            /\ ret'[d] = VA(res'[d].start)
            /\ cur'[d] = NULL
            /\ UNCHANGED <<pgmap_radix, pgmap_lock, page_map, nrecs, devres,
                           mem_added, mem_removed>>]_vars
C18_Witness ==
    \E d \in Devs :
        /\ ClaimReturned(d)
        /\ is_ram[d] = REGION_INTERSECTS
        /\ res[d].start > 0
        /\ ret[d] = VA(res[d].start)
        /\ pgmap_radix # EmptyRadix

\* C19: the range [align_start, align_start + align_size) passed to
\* arch_add_memory() for a claim starts and ends on section boundaries and
\* contains every address of the claimed range, and the range passed to
\* arch_remove_memory() for the claim is the same
C19_AlignedRangeCoversClaim ==
    \A p \in Recs :
        /\ (mem_added[p] # NoRange /\ page_map[p].st = "alloc") =>
               LET align_start == mem_added[p][1]
                   align_size == mem_added[p][2]
               IN  /\ align_start % SECTION_SIZE = 0
                   /\ align_size % SECTION_SIZE = 0
                   /\ align_start <= page_map[p].start
                   /\ page_map[p].end < align_start + align_size
        /\ mem_removed[p] # NoRange => mem_removed[p] = mem_added[p]

\* device d is inside the section walk of devm_memremap_pages() or of
\* pgmap_radix_release()
InWalk(d) == pc[d] \in {"walk", "rr_walk"}

\* C20: a section walk that has begun comes to its end, also for a range
\* whose end lies in the last section of the address space
C20_WalksTerminate ==
    \A d \in Devs : InWalk(d) ~> ~InWalk(d)
====
